---- MODULE Spec2Model ----
(***************************************************************************)
(* PC-Explorer (src/src/App.tsx): the complexity slider, the filter and    *)
(* script transforms, Undo, Sample, and the provenance pipeline with       *)
(* revert.                                                                 *)
(*                                                                         *)
(* Strings the code inspects (filter and script text, column names, cell   *)
(* strings) are sequences of one-character strings, so that the regular    *)
(* expressions, trim, split and replace of the code are computed on        *)
(* characters.  A value that may be null in the code (data, cols,          *)
(* lastSnapshotRef.current, nudge) is <<>> for null and <<v>> for v.        *)
(***************************************************************************)
EXTENDS Integers, Sequences, FiniteSets, TLC

None == <<>>
Some(v) == <<v>>

Min(a, b) == IF a < b THEN a ELSE b

\* ---------------------------------------------------------------- characters

Lower == {"a","b","c","d","e","f","g","h","i","j","k","l","m",
          "n","o","p","q","r","s","t","u","v","w","x","y","z"}

Upper == {"A","B","C","D","E","F","G","H","I","J","K","L","M",
          "N","O","P","Q","R","S","T","U","V","W","X","Y","Z"}

LowerSeq == <<"a","b","c","d","e","f","g","h","i","j","k","l","m",
              "n","o","p","q","r","s","t","u","v","w","x","y","z">>

UpperSeq == <<"A","B","C","D","E","F","G","H","I","J","K","L","M",
              "N","O","P","Q","R","S","T","U","V","W","X","Y","Z">>

DigitSeq == <<"0","1","2","3","4","5","6","7","8","9">>

DigitChars == {DigitSeq[i] : i \in 1..10}

\* \w of a JavaScript regular expression, which decides where \b matches.
WordChars == Lower \cup Upper \cup DigitChars \cup {"_"}

\* [a-zA-Z0-9_ ] : the class of the column group of the five filter forms.
FilterColChars == WordChars \cup {" "}

\* [0-9.+-] : the class of the number group of the > and < forms.
FilterNumChars == DigitChars \cup {".", "+", "-"}

\* ------------------------------------------------------------------- strings

\* String.prototype.trim (the only white space of the model is the space).
RECURSIVE TrimLeft(_)
TrimLeft(s) == IF s # <<>> /\ s[1] = " " THEN TrimLeft(Tail(s)) ELSE s

RECURSIVE TrimRight(_)
TrimRight(s) ==
    IF s # <<>> /\ s[Len(s)] = " " THEN TrimRight(SubSeq(s, 1, Len(s) - 1)) ELSE s

Trim(s) == TrimRight(TrimLeft(s))

ToLowerChar(c) ==
    IF c \in Upper THEN LowerSeq[CHOOSE i \in 1..26 : UpperSeq[i] = c] ELSE c

\* String.prototype.toLowerCase
ToLowerCase(s) == [i \in 1..Len(s) |-> ToLowerChar(s[i])]

\* s has the characters of t at position i
MatchesAt(s, t, i) ==
    /\ i >= 1
    /\ i + Len(t) - 1 <= Len(s)
    /\ \A j \in 1..Len(t) : s[i + j - 1] = t[j]

\* String.prototype.includes
Includes(s, t) == \E i \in 1..(Len(s) + 1) : MatchesAt(s, t, i)

\* String.prototype.split("=")
RECURSIVE SplitEq(_)
SplitEq(s) ==
    IF \E i \in 1..Len(s) : s[i] = "="
    THEN LET i == CHOOSE k \in 1..Len(s) :
                      s[k] = "=" /\ \A j \in 1..(k - 1) : s[j] # "="
         IN  <<SubSeq(s, 1, i - 1)>> \o SplitEq(SubSeq(s, i + 1, Len(s)))
    ELSE <<s>>

\* ---------------------------------------------------------------- cell values

\* The values a field of a row holds: numbers, strings, null, undefined (a
\* property whose value is undefined) and NaN.  A row is a function from its
\* own property names to cells; a name outside its domain is a missing field.
Num(n) == [k |-> "num", n |-> n, s |-> <<>>]
Str(s) == [k |-> "str", n |-> 0, s |-> s]
JsNull == [k |-> "null", n |-> 0, s |-> <<>>]
Undefined == [k |-> "undef", n |-> 0, s |-> <<>>]
NaN == [k |-> "nan", n |-> 0, s |-> <<>>]

\* r[col] : undefined for a name the row does not have
Get(r, col) == IF col \in DOMAIN r THEN r[col] ELSE Undefined

\* Number.prototype.toString for an integer
RECURSIVE NumToStr(_)
NumToStr(n) ==
    IF n < 0 THEN <<"-">> \o NumToStr(0 - n)
    ELSE IF n < 10 THEN <<DigitSeq[n + 1]>>
    ELSE NumToStr(n \div 10) \o <<DigitSeq[(n % 10) + 1]>>

\* String(v)
JsString(v) ==
    CASE v.k = "num" -> NumToStr(v.n)
      [] v.k = "str" -> v.s
      [] v.k = "null" -> <<"n","u","l","l">>
      [] v.k = "undef" -> <<"u","n","d","e","f","i","n","e","d">>
      [] v.k = "nan" -> <<"N","a","N">>

DigitVal(c) == (CHOOSE i \in 1..10 : DigitSeq[i] = c) - 1

RECURSIVE DigitsVal(_)
DigitsVal(s) ==
    IF s = <<>> THEN 0
    ELSE 10 * DigitsVal(SubSeq(s, 1, Len(s) - 1)) + DigitVal(s[Len(s)])

AllDigits(s) == s # <<>> /\ \A i \in 1..Len(s) : s[i] \in DigitChars

\* Number(s) of a string: white space is trimmed, the empty string is 0, an
\* optionally signed run of digits is its value, and any other text of the
\* model's alphabet is NaN (the model's texts hold no ".", "e" or "0x").
StrToNumber(s) ==
    LET t == Trim(s) IN
    IF t = <<>> THEN Num(0)
    ELSE IF AllDigits(t) THEN Num(DigitsVal(t))
    ELSE IF t[1] = "-" /\ AllDigits(Tail(t)) THEN Num(0 - DigitsVal(Tail(t)))
    ELSE IF t[1] = "+" /\ AllDigits(Tail(t)) THEN Num(DigitsVal(Tail(t)))
    ELSE NaN

\* Number(v)
ToNumber(v) ==
    CASE v.k = "num" -> v
      [] v.k = "str" -> StrToNumber(v.s)
      [] v.k = "null" -> Num(0)
      [] v.k = "undef" -> NaN
      [] v.k = "nan" -> NaN

\* a > b and a < b on two results of Number(): false when either is NaN
NumGt(a, b) == a.k = "num" /\ b.k = "num" /\ a.n > b.n
NumLt(a, b) == a.k = "num" /\ b.k = "num" /\ a.n < b.n

\* ------------------------------------------------------------------- clone

\* JSON.parse(JSON.stringify(v)) of a cell: NaN is written as null.
CloneCell(v) == IF v.k = "nan" THEN JsNull ELSE v

\* ... of a row: a property whose value is undefined is left out.
CloneRow(r) ==
    [f \in {g \in DOMAIN r : r[g].k # "undef"} |-> CloneCell(r[f])]

\* ... of an array of rows
CloneRows(rows) == [i \in 1..Len(rows) |-> CloneRow(rows[i])]

\* clone(obj) for data (an array of rows or null)
CloneData(d) == IF d = None THEN None ELSE Some(CloneRows(d[1]))

\* clone(obj) for cols (an array of strings or null)
CloneCols(c) == c

\* ------------------------------------------------------------- applyFilter

Chars_eq == <<"=", "=">>
Chars_neq == <<"!", "=">>
Chars_contains == <<"c","o","n","t","a","i","n","s">>

\* the length of the longest prefix of s made of characters of set
RunLen(s, set) ==
    CHOOSE p \in 0..Len(s) :
        /\ \A j \in 1..p : s[j] \in set
        /\ (p < Len(s) => s[p + 1] \notin set)

\* \s* from position i : the position of the first character that is no space
SkipSpaces(s, i) ==
    CHOOSE q \in i..(Len(s) + 1) :
        /\ \A j \in i..(q - 1) : s[j] = " "
        /\ (q <= Len(s) => s[q] # " ")

\* "(.*)"$ at position q : a quote at q and a quote ending the string
IsQuoted(s, q) == q < Len(s) /\ s[q] = "\"" /\ s[Len(s)] = "\""
QuotedText(s, q) == SubSeq(s, q + 1, Len(s) - 1)

NoMatch == [form |-> "none", col |-> <<>>, val |-> <<>>]

\* the quoted forms with m[1] taken without trim()
MatchQuotedFormNoTrim(s, form, op) ==
    LET p == RunLen(s, FilterColChars)
        q == SkipSpaces(s, p + 1 + Len(op))
    IN  IF p >= 1 /\ MatchesAt(s, op, p + 1) /\ IsQuoted(s, q)
        THEN [form |-> form, col |-> SubSeq(s, 1, p), val |-> QuotedText(s, q)]
        ELSE NoMatch

\* ^([a-zA-Z0-9_ ]+)\s*OP\s*"(.*)"$ for OP "==" or "!=" : m[1].trim(), m[2]
MatchQuotedForm(s, form, op) ==
    LET p == RunLen(s, FilterColChars)
        q == SkipSpaces(s, p + 1 + Len(op))
    IN  IF p >= 1 /\ MatchesAt(s, op, p + 1) /\ IsQuoted(s, q)
        THEN [form |-> form, col |-> Trim(SubSeq(s, 1, p)), val |-> QuotedText(s, q)]
        ELSE NoMatch

\* ^([a-zA-Z0-9_ ]+)\s*OP\s*([0-9.+-]+)$ for OP ">" or "<"
MatchNumberForm(s, form, op) ==
    LET p == RunLen(s, FilterColChars)
        q == SkipSpaces(s, p + 1 + Len(op))
        rest == SubSeq(s, q, Len(s))
    IN  IF /\ p >= 1
           /\ MatchesAt(s, op, p + 1)
           /\ rest # <<>>
           /\ \A j \in 1..Len(rest) : rest[j] \in FilterNumChars
        THEN [form |-> form, col |-> Trim(SubSeq(s, 1, p)), val |-> rest]
        ELSE NoMatch

\* ^([a-zA-Z0-9_ ]+)\s*contains\s*"(.*)"$ with the i flag.  The letters of
\* "contains" belong to the column class, so the greedy column group ends
\* right before the last "contains" from which the rest of the form matches.
MatchContainsForm(s) ==
    LET low == ToLowerCase(s)
        ok(p) == /\ MatchesAt(low, Chars_contains, p)
                 /\ \A j \in 1..(p - 1) : s[j] \in FilterColChars
                 /\ IsQuoted(s, SkipSpaces(s, p + Len(Chars_contains)))
        ps == {p \in 2..Len(s) : ok(p)}
    IN  IF ps = {} THEN NoMatch
        ELSE LET p == CHOOSE m \in ps : \A o \in ps : o <= m
             IN  [form |-> "contains",
                  col |-> Trim(SubSeq(s, 1, p - 1)),
                  val |-> QuotedText(s, SkipSpaces(s, p + Len(Chars_contains)))]

\* The if / else-if chain of applyFilter over the five regular expressions.
MatchFilter(s) ==
    LET eq == MatchQuotedForm(s, "eq", Chars_eq)
        neq == MatchQuotedForm(s, "neq", Chars_neq)
        gt == MatchNumberForm(s, "gt", <<">">>)
        lt == MatchNumberForm(s, "lt", <<"<">>)
    IN  IF eq.form # "none" THEN eq
        ELSE IF neq.form # "none" THEN neq
        ELSE IF gt.form # "none" THEN gt
        ELSE IF lt.form # "none" THEN lt
        ELSE MatchContainsForm(s)

\* the callback handed to data.filter for a matched form
RowPasses(m, r) ==
    CASE m.form = "eq" -> JsString(Get(r, m.col)) = m.val
      [] m.form = "neq" -> JsString(Get(r, m.col)) # m.val
      [] m.form = "gt" -> NumGt(ToNumber(Get(r, m.col)), StrToNumber(m.val))
      [] m.form = "lt" -> NumLt(ToNumber(Get(r, m.col)), StrToNumber(m.val))
      [] m.form = "contains" ->
            Includes(ToLowerCase(JsString(Get(r, m.col))), ToLowerCase(m.val))

\* Array.prototype.filter
RECURSIVE FilterRows(_, _)
FilterRows(rows, m) ==
    IF rows = <<>> THEN <<>>
    ELSE (IF RowPasses(m, Head(rows)) THEN <<Head(rows)>> ELSE <<>>)
         \o FilterRows(Tail(rows), m)

\* applyFilter returning the data for a text of no form, instead of throwing
applyFilterLenient(rows, expr) ==
    IF expr = <<>> THEN [ok |-> TRUE, rows |-> rows]
    ELSE LET m == MatchFilter(Trim(expr))
         IN  IF m.form = "none" THEN [ok |-> TRUE, rows |-> rows]
             ELSE [ok |-> TRUE, rows |-> FilterRows(rows, m)]

\* applyFilter(data, expr): [ok |-> FALSE] stands for the thrown
\* 'Unsupported filter expression' error.
applyFilter(rows, expr) ==
    IF expr = <<>> THEN [ok |-> TRUE, rows |-> rows]
    ELSE LET m == MatchFilter(Trim(expr))
         IN  IF m.form = "none" THEN [ok |-> FALSE, rows |-> <<>>]
             ELSE [ok |-> TRUE, rows |-> FilterRows(rows, m)]

\* --------------------------------------------------------- buildExpression

\* SAFE_FUNCS in the order of Object.keys: the name and its replacement
SAFE_FUNCS ==
    << [fn |-> <<"a","b","s">>,         js |-> <<"M","a","t","h",".","a","b","s">>],
       [fn |-> <<"s","q","r","t">>,     js |-> <<"M","a","t","h",".","s","q","r","t">>],
       [fn |-> <<"l","o","g">>,         js |-> <<"M","a","t","h",".","l","o","g">>],
       [fn |-> <<"r","o","u","n","d">>, js |-> <<"M","a","t","h",".","r","o","u","n","d">>],
       [fn |-> <<"m","i","n">>,         js |-> <<"M","a","t","h",".","m","i","n">>],
       [fn |-> <<"m","a","x">>,         js |-> <<"M","a","t","h",".","m","a","x">>],
       [fn |-> <<"p","o","w">>,         js |-> <<"M","a","t","h",".","p","o","w">>] >>

\* JSON.stringify(name) of a string: quoted, with " and \ escaped
RECURSIVE JsonEscape(_)
JsonEscape(s) ==
    IF s = <<>> THEN <<>>
    ELSE (IF s[1] \in {"\"", "\\"} THEN <<"\\", s[1]>> ELSE <<s[1]>>)
         \o JsonEscape(Tail(s))

RowOpen == <<"_","_","r","o","w","[">>

\* colIdentifier(name) : __row["name"]
colIdentifier(name) == RowOpen \o <<"\"">> \o JsonEscape(name) \o <<"\"", "]">>

IsWordAt(s, i) == i >= 1 /\ i <= Len(s) /\ s[i] \in WordChars

\* \b before position i (1..Len(s)+1): a word character on exactly one side
Boundary(s, i) == IsWordAt(s, i - 1) # IsWordAt(s, i)

\* new RegExp("\\b" + pat + "\\b") matches at position i (pat is taken
\* literally: the code escapes the characters special to a regular expression)
WordMatchAt(s, pat, i) ==
    /\ MatchesAt(s, pat, i)
    /\ Boundary(s, i)
    /\ Boundary(s, i + Len(pat))

\* expr.replace(re, repl) with the g flag, from position i on: matches are
\* taken left to right and do not overlap; an empty match is followed by a
\* step of one character.  (repl holds no "$" in the model.)
RECURSIVE ReplaceFrom(_, _, _, _)
ReplaceFrom(s, pat, repl, i) ==
    IF i > Len(s) + 1 THEN <<>>
    ELSE IF WordMatchAt(s, pat, i)
         THEN IF pat = <<>>
              THEN repl \o (IF i <= Len(s) THEN <<s[i]>> ELSE <<>>)
                        \o ReplaceFrom(s, pat, repl, i + 1)
              ELSE repl \o ReplaceFrom(s, pat, repl, i + Len(pat))
         ELSE (IF i <= Len(s) THEN <<s[i]>> ELSE <<>>)
              \o ReplaceFrom(s, pat, repl, i + 1)

ReplaceWord(s, pat, repl) == ReplaceFrom(s, pat, repl, 1)

\* the forEach over Object.keys(SAFE_FUNCS), from the i-th name on
RECURSIVE ReplaceFuncs(_, _)
ReplaceFuncs(expr, i) ==
    IF i > Len(SAFE_FUNCS) THEN expr
    ELSE ReplaceFuncs(ReplaceWord(expr, SAFE_FUNCS[i].fn, SAFE_FUNCS[i].js), i + 1)

\* insert c into a list sorted by decreasing length, after the names that are
\* at least as long (Array.prototype.sort is stable)
RECURSIVE InsertByLen(_, _)
InsertByLen(sorted, c) ==
    IF sorted = <<>> THEN <<c>>
    ELSE IF Len(Head(sorted)) >= Len(c)
         THEN <<Head(sorted)>> \o InsertByLen(Tail(sorted), c)
         ELSE <<c>> \o sorted

\* cols.slice().sort((a, b) => b.length - a.length)
RECURSIVE SortByLenDesc(_)
SortByLenDesc(cs) ==
    IF cs = <<>> THEN <<>>
    ELSE InsertByLen(SortByLenDesc(SubSeq(cs, 1, Len(cs) - 1)), cs[Len(cs)])

\* the forEach over the sorted column names
RECURSIVE ReplaceCols(_, _)
ReplaceCols(expr, sorted) ==
    IF sorted = <<>> THEN expr
    ELSE ReplaceCols(ReplaceWord(expr, Head(sorted), colIdentifier(Head(sorted))),
                     Tail(sorted))

buildExpression(expr, cs) == ReplaceCols(ReplaceFuncs(expr, 1), SortByLenDesc(cs))

\* ---------------------------------------------------------- applyScriptSafe

\* The function body `try{ return <jsExpr>; }catch(e){ return null; }` is
\* evaluated for the expression shapes below (A is an atom: a row lookup
\* __row["c"], an integer literal, or an identifier that names nothing):
\*     (empty)    A    A * A    __row["c"].p    Math.abs(A)
\* Any other text is the shape "A *" in the model's scripts, which
\* new Function rejects with a SyntaxError.
Throws == [k |-> "throws", n |-> 0, s |-> <<>>]

NoAtom == [kind |-> "none", name |-> <<>>, rest |-> <<>>]

\* the atom that starts s, and the text after it
Atom(s) ==
    IF MatchesAt(s, RowOpen \o <<"\"">>, 1)
    THEN LET from == Len(RowOpen) + 2
             ends == {e \in from..(Len(s) - 1) : s[e] = "\"" /\ s[e + 1] = "]"}
         IN  IF ends = {} THEN NoAtom
             ELSE LET e == CHOOSE m \in ends : \A o \in ends : m <= o
                  IN  [kind |-> "lookup", name |-> SubSeq(s, from, e - 1),
                       rest |-> SubSeq(s, e + 2, Len(s))]
    ELSE IF s # <<>> /\ s[1] \in DigitChars
    THEN LET p == RunLen(s, DigitChars)
         IN  [kind |-> "number", name |-> SubSeq(s, 1, p),
              rest |-> SubSeq(s, p + 1, Len(s))]
    ELSE IF s # <<>> /\ s[1] \in WordChars
    THEN LET p == RunLen(s, WordChars)
         IN  [kind |-> "ident", name |-> SubSeq(s, 1, p),
              rest |-> SubSeq(s, p + 1, Len(s))]
    ELSE NoAtom

\* the value of an atom for a row; an unknown identifier is a ReferenceError
AtomValue(a, r) ==
    CASE a.kind = "lookup" -> Get(r, a.name)
      [] a.kind = "number" -> Num(DigitsVal(a.name))
      [] a.kind = "ident" -> Throws

\* a * b
Times(a, b) ==
    IF a.k = "throws" \/ b.k = "throws" THEN Throws
    ELSE LET m == ToNumber(a)
             n == ToNumber(b)
         IN  IF m.k = "num" /\ n.k = "num" THEN Num(m.n * n.n) ELSE NaN

\* v.p : a TypeError on null and undefined, undefined on the model's other
\* values (they have no property p)
Member(v) ==
    IF v.k \in {"throws", "null", "undef"} THEN Throws ELSE Undefined

\* Math.abs(v)
MathAbs(v) ==
    IF v.k = "throws" THEN Throws
    ELSE LET m == ToNumber(v)
         IN  IF m.k = "num" THEN Num(IF m.n < 0 THEN 0 - m.n ELSE m.n) ELSE NaN

IsIdentifier(s) ==
    /\ s # <<>>
    /\ s[1] \in WordChars \ DigitChars
    /\ \A i \in 1..Len(s) : s[i] \in WordChars

Chars_Math == <<"M","a","t","h">>
Chars_absOpen == <<".","a","b","s","(">>

\* [shape |-> ..] of the expression text: which of the shapes above it has,
\* "syntax" for a text new Function cannot compile
Shape(js) ==
    LET a == Atom(js)
        rest == Trim(a.rest)
        b == Atom(TrimLeft(Tail(rest)))
        inner == Atom(SubSeq(rest, Len(Chars_absOpen) + 1, Len(rest) - 1))
    IN  IF js = <<>> THEN [shape |-> "empty", a |-> NoAtom, b |-> NoAtom]
        ELSE IF a.kind = "none" THEN [shape |-> "syntax", a |-> NoAtom, b |-> NoAtom]
        ELSE IF rest = <<>> THEN [shape |-> "atom", a |-> a, b |-> NoAtom]
        ELSE IF rest[1] = "*" /\ b.kind # "none" /\ Trim(b.rest) = <<>>
             THEN [shape |-> "times", a |-> a, b |-> b]
        ELSE IF a.kind = "lookup" /\ rest[1] = "." /\ IsIdentifier(Tail(rest))
             THEN [shape |-> "member", a |-> a, b |-> NoAtom]
        ELSE IF /\ a.kind = "ident" /\ a.name = Chars_Math
                /\ MatchesAt(rest, Chars_absOpen, 1)
                /\ rest[Len(rest)] = ")"
                /\ Len(rest) > Len(Chars_absOpen) + 1
                /\ inner.kind # "none" /\ inner.rest = <<>>
             THEN [shape |-> "abs", a |-> inner, b |-> NoAtom]
        ELSE [shape |-> "syntax", a |-> NoAtom, b |-> NoAtom]

\* fn(__row) : the value the compiled function returns for a row; the catch
\* clause turns a thrown error into null
CallFn(sh, r) ==
    LET v == CASE sh.shape = "empty" -> Undefined
               [] sh.shape = "atom" -> AtomValue(sh.a, r)
               [] sh.shape = "times" -> Times(AtomValue(sh.a, r), AtomValue(sh.b, r))
               [] sh.shape = "member" -> Member(AtomValue(sh.a, r))
               [] sh.shape = "abs" -> MathAbs(AtomValue(sh.a, r))
    IN  IF v.k = "throws" THEN JsNull ELSE v

\* { ...r, [target]: val }
WithField(r, target, val) ==
    [f \in DOMAIN r \cup {target} |-> IF f = target THEN val ELSE r[f]]

\* applyScriptSafe(data, cols, script): err is "format" for the thrown
\* 'Script must be: newcol = expression', "syntax" for the SyntaxError of
\* new Function, "none" for a result {data, newCol}
applyScriptSafe(rows, cs, script) ==
    LET parts == SplitEq(script)
        target == Trim(parts[1])
        expr == Trim(parts[2])
        jsExpr == buildExpression(expr, cs)
        sh == Shape(jsExpr)
    IN  IF Len(parts) # 2
        THEN [err |-> "format", data |-> <<>>, newCol |-> <<>>]
        ELSE IF sh.shape = "syntax"
        THEN [err |-> "syntax", data |-> <<>>, newCol |-> <<>>]
        ELSE [err |-> "none",
              data |-> [i \in 1..Len(rows) |-> WithField(rows[i], target, CallFn(sh, rows[i]))],
              newCol |-> target]

\* [...cols, newCol] without the Set
DedupeNone(list) == list

\* Array.from(new Set(list)) : the first occurrence of each name, in order
RECURSIVE Dedupe(_)
Dedupe(list) ==
    IF list = <<>> THEN <<>>
    ELSE LET init == Dedupe(SubSeq(list, 1, Len(list) - 1))
             last == list[Len(list)]
         IN  IF \E i \in 1..Len(init) : init[i] = last THEN init
             ELSE Append(init, last)

\* -------------------------------------------------------------------- state

VARIABLES
    level,            \* useState<Level>(1)
    data,             \* useState<any[] | null>(null)
    cols,             \* useState<string[] | null>(null)
    x,                \* useState<string | null>(null)
    y,                \* useState<string | null>(null)
    pipeline,         \* useState<{desc, data, cols, ts}[]>([])
    nudge,            \* useState<string | null>(null)
    lastSnapshotRef,  \* useRef<{data, cols} | null>(null)
    clock,            \* Date.now() as a logical clock: one tick per pipeline entry
    lastOp,           \* history: the last user event and its input
    beforeLast,       \* history: data and cols right before the last transform
    built             \* the input and the result of buildExpression (SpecExpr)

vars == <<level, data, cols, x, y, pipeline, nudge, lastSnapshotRef, clock,
          lastOp, beforeLast, built>>

\* The logs and the counts (instrumentation that grows with every event and is
\* read only by exportLogs) and the chart type are not part of the model.

PipelineCap == 100

NudgeFilter == "Filters require Level 2"
NudgeScript == "Scripting requires Level 3"

NoInput == [text |-> <<>>, form |-> "none", col |-> <<>>, val |-> <<>>]

\* res: "ok", or why the handler did nothing: "nodata", "unsupported" (the
\* error of applyFilter), "format" and "syntax" (the errors of applyScriptSafe),
\* "nosnapshot", "noentry", "disabled"
Op(op, in, idx, res) == [op |-> op, in |-> in, idx |-> idx, res |-> res]

Desc(kind, arg) == [kind |-> kind, arg |-> arg]

\* the first n elements of s : s.slice(0, n)
Slice(s, n) == SubSeq(s, 1, Min(n, Len(s)))

\* addPipeline without the slice(0, 100)
addPipelineUncapped(prev, desc, snapshotData, snapshotCols) ==
    <<[desc |-> desc,
       data |-> CloneData(snapshotData),
       cols |-> IF snapshotCols # None THEN CloneCols(snapshotCols) ELSE None,
       ts   |-> clock]>> \o prev

\* addPipeline(desc, snapshotData, snapshotCols) applied to the pipeline prev:
\* the new entry holds clones, and [entry, ...prev].slice(0, 100)
addPipeline(prev, desc, snapshotData, snapshotCols) ==
    LET entry == [desc |-> desc,
                  data |-> CloneData(snapshotData),
                  cols |-> IF snapshotCols # None THEN CloneCols(snapshotCols) ELSE None,
                  ts   |-> clock]
    IN  Slice(<<entry>> \o prev, PipelineCap)

InitApp ==
    /\ level = 1
    /\ data = None
    /\ cols = None
    /\ x = None
    /\ y = None
    /\ pipeline = <<>>
    /\ nudge = None
    /\ lastSnapshotRef = None
    /\ clock = 0
    /\ lastOp = Op("init", NoInput, 0, "ok")
    /\ beforeLast = None

NotBuilt == [expr |-> <<>>, cols |-> <<>>, out |-> None]

Init ==
    /\ InitApp
    /\ built = NotBuilt

\* ----------------------------------------------------------------- handlers

\* loadData without its setPipeline([]): the load entry goes in front of the
\* entries of the dataset before
loadDataKeepPipeline(d, c, label) ==
    /\ data' = Some(d)
    /\ cols' = Some(c)
    /\ x' = None
    /\ y' = None
    /\ pipeline' = addPipeline(pipeline, Desc(label, <<>>), Some(d), Some(c))
    /\ clock' = clock + 1
    /\ lastOp' = Op("load", NoInput, 0, "ok")
    /\ beforeLast' = None
    /\ UNCHANGED <<level, nudge, lastSnapshotRef, built>>

\* loadData(d, c, label)
loadData(d, c, label) ==
    /\ data' = Some(d)
    /\ cols' = Some(c)
    /\ x' = None
    /\ y' = None
    /\ pipeline' = addPipeline(<<>>, Desc(label, <<>>), Some(d), Some(c))
    /\ clock' = clock + 1
    /\ lastOp' = Op("load", NoInput, 0, "ok")
    /\ beforeLast' = None
    /\ UNCHANGED <<level, nudge, lastSnapshotRef, built>>

\* handleLevelChange(next)
handleLevelChange(next) ==
    /\ level' = next
    /\ lastOp' = Op("level", NoInput, 0, "ok")
    /\ UNCHANGED <<data, cols, x, y, pipeline, nudge, lastSnapshotRef, clock,
                   beforeLast, built>>

\* applyFilterAction(expr), expr being in.text
applyFilterAction(in) ==
    IF data = None
    THEN /\ lastOp' = Op("filter", in, 0, "nodata")
         /\ UNCHANGED <<level, data, cols, x, y, pipeline, nudge, lastSnapshotRef,
                        clock, beforeLast, built>>
    ELSE LET res == applyFilter(data[1], in.text) IN
         /\ nudge' = IF level = 1 THEN Some(NudgeFilter) ELSE nudge
         /\ lastSnapshotRef' = Some([data |-> CloneData(data), cols |-> CloneCols(cols)])
         /\ IF res.ok
            THEN /\ data' = Some(res.rows)
                 /\ pipeline' = addPipeline(pipeline, Desc("Filter", in.text),
                                            Some(res.rows), cols)
                 /\ clock' = clock + 1
                 /\ beforeLast' = Some([data |-> data, cols |-> cols])
            ELSE UNCHANGED <<data, pipeline, clock, beforeLast>>
         /\ lastOp' = Op("filter", in, 0, IF res.ok THEN "ok" ELSE "unsupported")
         /\ UNCHANGED <<level, cols, x, y, built>>

\* undo()
undo ==
    IF lastSnapshotRef = None
    THEN /\ lastOp' = Op("undo", NoInput, 0, "nosnapshot")
         /\ beforeLast' = None
         /\ UNCHANGED <<level, data, cols, x, y, pipeline, nudge, lastSnapshotRef,
                        clock, built>>
    ELSE LET prev == lastSnapshotRef[1].data
             prevCols == lastSnapshotRef[1].cols
         IN  /\ data' = prev
             /\ cols' = prevCols
             /\ pipeline' = addPipeline(pipeline, Desc("Undo", <<>>), prev, prevCols)
             /\ clock' = clock + 1
             /\ lastSnapshotRef' = None
             /\ lastOp' = Op("undo", NoInput, 0, "ok")
             /\ beforeLast' = None
             /\ UNCHANGED <<level, x, y, nudge, built>>

\* applyScriptAction(script), script being in.text
applyScriptAction(in) ==
    IF data = None \/ cols = None
    THEN /\ lastOp' = Op("script", in, 0, "nodata")
         /\ UNCHANGED <<level, data, cols, x, y, pipeline, nudge, lastSnapshotRef,
                        clock, beforeLast, built>>
    ELSE LET res == applyScriptSafe(data[1], cols[1], in.text)
             newCols == Some(Dedupe(cols[1] \o <<res.newCol>>))
         IN  /\ nudge' = IF level <= 2 THEN Some(NudgeScript) ELSE nudge
             /\ lastSnapshotRef' =
                    Some([data |-> CloneData(data), cols |-> CloneCols(cols)])
             /\ IF res.err = "none"
                THEN /\ data' = Some(res.data)
                     /\ cols' = newCols
                     /\ pipeline' = addPipeline(pipeline, Desc("Script", in.text),
                                                Some(res.data), newCols)
                     /\ clock' = clock + 1
                     /\ beforeLast' = Some([data |-> data, cols |-> cols])
                ELSE UNCHANGED <<data, cols, pipeline, clock, beforeLast>>
             /\ lastOp' = Op("script", in, 0, IF res.err = "none" THEN "ok" ELSE res.err)
             /\ UNCHANGED <<level, x, y, built>>

\* the entry read from the head of the pipeline whatever idx is
EntryAtNewest(idx) == pipeline[1]

\* const entry = pipeline[idx], idx counted from 0 as in the code
EntryAt(idx) == pipeline[idx + 1]

\* revertToPipeline(idx)
revertToPipeline(idx) ==
    IF idx + 1 \notin DOMAIN pipeline
    THEN /\ lastOp' = Op("revert", NoInput, idx, "noentry")
         /\ UNCHANGED <<level, data, cols, x, y, pipeline, nudge, lastSnapshotRef,
                        clock, beforeLast, built>>
    ELSE LET entry == EntryAt(idx) IN
         /\ data' = IF entry.data # None THEN CloneData(entry.data) ELSE None
         /\ cols' = IF entry.cols # None THEN CloneCols(entry.cols) ELSE None
         /\ pipeline' = addPipeline(pipeline, Desc("Revert to", entry.desc.arg),
                                    entry.data, entry.cols)
         /\ clock' = clock + 1
         /\ lastOp' = Op("revert", NoInput, idx, "ok")
         /\ UNCHANGED <<level, x, y, nudge, lastSnapshotRef, beforeLast, built>>

SampleSize == 10

\* the onClick of the two sample buttons (they differ in the counts only)
sampleRows ==
    IF data = None
    THEN /\ lastOp' = Op("sample", NoInput, 0, "nodata")
         /\ UNCHANGED <<level, data, cols, x, y, pipeline, nudge, lastSnapshotRef,
                        clock, beforeLast, built>>
    ELSE LET sampled == Slice(data[1], Min(SampleSize, Len(data[1]))) IN
         /\ data' = Some(sampled)
         /\ pipeline' = addPipeline(pipeline, Desc("Sampled 10 rows", <<>>),
                                    Some(sampled), cols)
         /\ clock' = clock + 1
         /\ lastOp' = Op("sample", NoInput, 0, "ok")
         /\ beforeLast' = Some([data |-> data, cols |-> cols])
         /\ UNCHANGED <<level, cols, x, y, nudge, lastSnapshotRef, built>>

\* ---------------------------------------------------------------- UI events

\* the FilterBox and the panel rendered at every level
TransformsShownAlways == TRUE

\* {level >= 2 && ...}: the FilterBox and the Transforms & Scripting panel
\* (Undo, Sample, ScriptBox) are rendered at Level 2 and 3 only
TransformsShown == level >= 2

\* ScriptBox enabled={level >= 3}: the Run button is disabled below Level 3
ScriptEnabled == level >= 3

\* the onChange of the complexity slider
SliderChange(next) ==
    /\ next # level
    /\ handleLevelChange(next)

\* CSVUploader: onData(res.data, res.meta.fields || [])
UploadCSV(ds) == loadData(ds.data, ds.cols, "Load dataset")

\* the onChange of the X axis and Y axis selects: e.target.value || null
AxisOptions == {None} \cup (IF cols = None THEN {} ELSE {Some(cols[1][i]) : i \in DOMAIN cols[1]})

SetX(v) ==
    /\ v # x
    /\ x' = v
    /\ lastOp' = Op("axis", NoInput, 0, "ok")
    /\ UNCHANGED <<level, data, cols, y, pipeline, nudge, lastSnapshotRef, clock,
                   beforeLast, built>>

SetY(v) ==
    /\ v # y
    /\ y' = v
    /\ lastOp' = Op("axis", NoInput, 1, "ok")
    /\ UNCHANGED <<level, data, cols, x, pipeline, nudge, lastSnapshotRef, clock,
                   beforeLast, built>>

\* FilterBox Apply
FilterBoxApply(in) ==
    /\ TransformsShown
    /\ applyFilterAction(in)

\* the Undo button
UndoClick ==
    /\ TransformsShown
    /\ undo

\* the Sample button of the Transforms panel
SampleClick ==
    /\ TransformsShown
    /\ sampleRows

\* the 'Sample 10 rows' button of the Quick actions, rendered at every level
QuickSampleClick == sampleRows

\* ScriptBox Run, enabled
ScriptBoxRun(in) ==
    /\ TransformsShown
    /\ ScriptEnabled
    /\ applyScriptAction(in)

\* ScriptBox Run while it is rendered disabled: the click calls no handler
ScriptBoxRunDisabled ==
    /\ TransformsShown
    /\ ~ScriptEnabled
    /\ lastOp' = Op("runDisabled", NoInput, 0, "disabled")
    /\ UNCHANGED <<level, data, cols, x, y, pipeline, nudge, lastSnapshotRef,
                   clock, beforeLast, built>>

\* a Revert button: one is rendered for each entry of the pipeline
RevertClick(idx) ==
    /\ idx + 1 \in DOMAIN pipeline
    /\ revertToPipeline(idx)

\* the Dismiss button, rendered while a nudge is set; no rendered control
\* reaches a setNudge call, so the button is never on the page and the
\* action is a disjunct of no next-state relation
DismissClick ==
    /\ nudge # None
    /\ nudge' = None
    /\ lastOp' = Op("dismiss", NoInput, 0, "ok")
    /\ UNCHANGED <<level, data, cols, x, y, pipeline, lastSnapshotRef, clock,
                   beforeLast, built>>

\* the Reset button of the Instrumentation panel
InstrumentationReset ==
    /\ pipeline' = <<>>
    /\ lastOp' = Op("resetInstrumentation", NoInput, 0, "ok")
    /\ UNCHANGED <<level, data, cols, x, y, nudge, lastSnapshotRef, clock,
                   beforeLast, built>>

\* the Reset button of the Quick actions
QuickReset ==
    /\ data' = None
    /\ cols' = None
    /\ x' = None
    /\ y' = None
    /\ pipeline' = <<>>
    /\ nudge' = None
    /\ lastOp' = Op("reset", NoInput, 0, "ok")
    /\ beforeLast' = None
    /\ UNCHANGED <<level, lastSnapshotRef, clock, built>>

\* -------------------------------------------------------------------- inputs

\* QuickSamples: sampleData and cols
Chars_country == <<"c","o","u","n","t","r","y">>
Chars_pop == <<"p","o","p">>
Chars_gdp == <<"g","d","p">>

SampleRow(country, pop, gdp) ==
    (Chars_country :> Str(country)) @@ (Chars_pop :> Num(pop)) @@ (Chars_gdp :> Num(gdp))

sampleData ==
    << SampleRow(<<"C","h","i","n","a">>, 1409517397, 14342903),
       SampleRow(<<"I","n","d","i","a">>, 1339180127, 2875142),
       SampleRow(<<"U","S","A">>, 324459463, 21433226),
       SampleRow(<<"I","n","d","o","n","e","s","i","a">>, 263991379, 1058398),
       SampleRow(<<"B","r","a","z","i","l">>, 209288278, 1444731) >>

sampleCols == <<Chars_country, Chars_pop, Chars_gdp>>

\* the Load Sample Data button
LoadSampleClick == loadData(sampleData, sampleCols, "Load sample dataset")

\* Uploaded files, as Papa.parse (header, dynamicTyping) hands them over: a
\* file with a number column n and a text column s, one row with an empty
\* number (null) and one short row (no field s); and a file of twelve rows.
ColN == <<"n">>
ColS == <<"s">>
ColT == <<"t">>

RowNS(n, s) == (ColN :> n) @@ (ColS :> Str(s))

FileA ==
    [data |-> << RowNS(Num(1), <<"A","b">>),
                 RowNS(Num(5), <<"b">>),
                 RowNS(JsNull, <<"A","b">>),
                 (ColN :> Num(12)) >>,
     cols |-> <<ColN, ColS>>]

LongRows == 12

FileB ==
    [data |-> [i \in 1..LongRows |-> (ColN :> Num(i))],
     cols |-> <<ColN>>]

Uploads == {FileA, FileB}

\* A filter text written from a column, an operator and a value in the syntax
\* of the tooltip, with sp1 and sp2 as the white space around the operator.
\* The record keeps what the text was written from.
Quote(s) == <<"\"">> \o s \o <<"\"">>

FilterText(form, col, val, sp1, sp2) ==
    LET op == CASE form = "eq" -> Chars_eq
                [] form = "neq" -> Chars_neq
                [] form = "gt" -> <<">">>
                [] form = "lt" -> <<"<">>
                [] form = "contains" -> Chars_contains
        v == IF form \in {"gt", "lt"} THEN val ELSE Quote(val)
    IN  [text |-> col \o sp1 \o op \o sp2 \o v, form |-> form, col |-> col, val |-> val]

Raw(text, form) == [text |-> text, form |-> form, col |-> <<>>, val |-> <<>>]

EmptyFilter == Raw(<<>>, "empty")

\* texts that have none of the five forms
BadFilters ==
    { Raw(<<"n"," ",">","="," ","3">>, "none"),
      Raw(<<"n"," ","="," ","3">>, "none"),
      Raw(<<"n"," ","=","="," ","3">>, "none"),
      Raw(<<" ">>, "none"),
      Raw(<<"n",">">>, "none"),
      Raw(<<"n","-","1"," ",">"," ","3">>, "none") }

Filters ==
    { FilterText("gt", ColN, <<"3">>, <<" ">>, <<" ">>),
      FilterText("eq", ColS, <<"A","b">>, <<" ">>, <<" ">>),
      FilterText("contains", ColS, <<"B">>, <<" ">>, <<" ">>),
      EmptyFilter,
      Raw(<<"n"," ",">","="," ","3">>, "none") }

FilterValues(form) ==
    IF form \in {"gt", "lt"}
    THEN { <<"3">>, <<"-","1">>, <<"+","5">>, <<"1","1">>, <<"+","-">> }
    ELSE { <<"A","b">>, <<"b">>, <<"5">>, <<"n","u","l","l">>,
           <<"u","n","d","e","f","i","n","e","d">>, <<>>, <<"B">> }

FilterForms == {"eq", "neq", "gt", "lt", "contains"}

FiltersWide ==
    UNION { { FilterText(form, col, val, sp, sp) :
                col \in {ColN, ColS}, val \in FilterValues(form), sp \in {<<>>, <<" ">>} }
            : form \in FilterForms }
    \cup BadFilters \cup {EmptyFilter}

\* A script text written from a target column and an expression.
ScriptText(target, expr, sp) ==
    [text |-> target \o sp \o <<"=">> \o sp \o expr,
     form |-> "script", col |-> target, val |-> expr]

Expr_n2 == <<"n"," ","*"," ","2">>
Expr_s2 == <<"s","*","2">>
Expr_nx == <<"n",".","x">>
Expr_zz == <<"z","z">>
Expr_abs == <<"a","b","s","(","n",")">>

\* texts without exactly one "="
BadScripts ==
    { Raw(<<"t">>, "none"),
      Raw(<<"t"," ","="," ","n"," ","=","="," ","1">>, "none"),
      Raw(<<>>, "none") }

\* a well-formed script whose expression does not compile
SyntaxScripts == { Raw(<<"t","=","n"," ","*">>, "syntax") }

Scripts ==
    { ScriptText(ColT, Expr_n2, <<" ">>),
      ScriptText(ColT, Expr_s2, <<" ">>),
      ScriptText(ColN, Expr_nx, <<" ">>),
      Raw(<<"t">>, "none") }

ScriptsWide ==
    { ScriptText(target, expr, sp) :
        target \in {ColT, ColN, ColS, <<>>},
        expr \in {Expr_n2, Expr_s2, Expr_nx, Expr_zz, Expr_abs, <<"7">>, <<>>,
                  <<"n">>, <<"z","z","*","2">>},
        sp \in {<<>>, <<" ">>} }
    \cup BadScripts \cup SyntaxScripts

\* ------------------------------------------------------------ specifications

\* The events of the page, taken once from entries have been added to the
\* pipeline.  An event that adds a pipeline entry is taken while fewer than
\* bound entries have been added.
Step(from, bound, uploads, filters, scripts) ==
    \/ clock >= from /\ \E next \in 1..3 : SliderChange(next)
    \/ clock >= from /\ clock < bound /\ \E ds \in uploads : UploadCSV(ds)
    \/ clock >= from /\ clock < bound /\ LoadSampleClick
    \/ clock >= from /\ clock < bound /\ \E in \in filters : FilterBoxApply(in)
    \/ clock >= from /\ clock < bound /\ \E in \in scripts : ScriptBoxRun(in)
    \/ clock >= from /\ ScriptBoxRunDisabled
    \/ clock >= from /\ clock < bound /\ UndoClick
    \/ clock >= from /\ clock < bound /\ SampleClick
    \/ clock >= from /\ clock < bound /\ QuickSampleClick
    \/ clock >= from /\ clock < bound
         /\ \E idx \in 0..(Len(pipeline) - 1) : RevertClick(idx)
    \/ clock >= from /\ InstrumentationReset
    \/ clock >= from /\ QuickReset

MaxSteps == 3

Next == Step(0, MaxSteps, Uploads, Filters, Scripts)

Spec == Init /\ [][Next]_vars

WideSteps == 2

NextWide == Step(0, WideSteps, Uploads, FiltersWide, ScriptsWide)

SpecWide == Init /\ [][NextWide]_vars

\* the page with the axis selects
NextAxes ==
    \/ Next
    \/ \E v \in AxisOptions : SetX(v)
    \/ \E v \in AxisOptions : SetY(v)

SpecAxes == Init /\ [][NextAxes]_vars

\* The pipeline at its cap: one file is loaded and sampled until the pipeline
\* is one entry short of PipelineCap, and then every event of the page is
\* taken, for CapExtra more entries.
CapExtra == 2

NextCap ==
    \/ clock < PipelineCap - 1 /\ data = None /\ UploadCSV(FileA)
    \/ clock < PipelineCap - 1 /\ data # None /\ QuickSampleClick
    \/ Step(PipelineCap - 1, PipelineCap - 1 + CapExtra, Uploads, Filters, Scripts)

SpecCap == Init /\ [][NextCap]_vars

\* buildExpression on its own: an expression and a list of column names are
\* drawn, and the function is applied to them.
ColNN == <<"n","n">>
ColAbs == <<"a","b","s">>
ColA == <<"a">>
ColAB == <<"a"," ","b">>

BuildExprs ==
    { Expr_n2, Expr_s2, Expr_nx, Expr_zz, Expr_abs,
      <<"n","n","+","n">>,
      <<"a"," ","b","+","a">>,
      <<"s","q","r","t","(","p","o","w","(","n",",","2",")",")">>,
      <<"m","a","x","(","n",",","m","i","n","(","s",",","1",")",")">>,
      <<"r","o","u","n","d","(","l","o","g","(","p","o","p",")",")">>,
      <<"a","b","s","n","+","n","_","s">> }

BuildCols ==
    { <<>>, <<ColN>>, <<ColN, ColS>>, <<ColS, ColN, ColNN>>, <<ColNN, ColN>>,
      <<ColAbs, ColN>>, <<ColA, ColAB>>, <<ColAB, ColA>>, sampleCols,
      <<ColN, Chars_pop>> }

InitExpr ==
    /\ InitApp
    /\ \E e \in BuildExprs, cs \in BuildCols :
           built = [expr |-> e, cols |-> cs, out |-> None]

BuildExpressionCall ==
    /\ built.out = None
    /\ built' = [built EXCEPT !.out = Some(buildExpression(built.expr, built.cols))]
    /\ UNCHANGED <<level, data, cols, x, y, pipeline, nudge, lastSnapshotRef,
                   clock, lastOp, beforeLast>>

SpecExpr == InitExpr /\ [][BuildExpressionCall]_vars

\* ==================================================================== claims

Ok(o) == o.res = "ok"

Rows == data[1]

IsPrefix(s, u) == Len(s) <= Len(u) /\ \A i \in 1..Len(s) : s[i] = u[i]

\* C1: transforms are gated by the level: a step in which a filter changes the
\* data or puts a 'Filter' entry on the pipeline is taken at Level 2 or 3 only,
\* and a step in which a script changes data or cols or puts a 'Script' entry
\* on the pipeline is taken at Level 3 only.
C1_TransformsGated ==
    [][ /\ (/\ lastOp'.op = "filter"
            /\ (data' # data \/ pipeline' # pipeline))
           => level \in {2, 3}
        /\ (/\ lastOp'.op = "script"
            /\ (data' # data \/ cols' # cols \/ pipeline' # pipeline))
           => level = 3
        /\ (/\ pipeline' # <<>>
            /\ pipeline'[1].ts = clock
            /\ pipeline'[1].desc.kind = "Filter")
           => level' \in {2, 3}
        /\ (/\ pipeline' # <<>>
            /\ pipeline'[1].ts = clock
            /\ pipeline'[1].desc.kind = "Script")
           => level' = 3 ]_vars

\* a filter at Level 2 has removed rows and is the first pipeline entry
C1_Witness ==
    /\ lastOp.op = "filter" /\ Ok(lastOp)
    /\ level = 2
    /\ pipeline # <<>> /\ pipeline[1].desc.kind = "Filter"
    /\ Len(Rows) < Len(beforeLast[1].data[1])

\* C2 as stated: revertToPipeline(idx) on an existing entry sets data and cols
\* to the entry's snapshot and prepends one 'Revert to' entry with the same
\* snapshot, every earlier entry staying, one position further; an idx with no
\* entry changes nothing.
C2_RevertKeepsAllEntries ==
    [][ lastOp'.op = "revert" =>
          IF Ok(lastOp')
          THEN LET e == pipeline[lastOp'.idx + 1] IN
               /\ data' = e.data
               /\ cols' = e.cols
               /\ pipeline'[1].desc.kind = "Revert to"
               /\ pipeline'[1].data = e.data
               /\ pipeline'[1].cols = e.cols
               /\ Len(pipeline') = Len(pipeline) + 1
               /\ \A i \in 1..Len(pipeline) : pipeline'[i + 1] = pipeline[i]
          ELSE UNCHANGED <<data, cols, pipeline>> ]_vars

\* C2 amended: ... every earlier entry staying, one position further, except
\* that the oldest entry is dropped when the pipeline already holds 100.
C2_RevertRestoresSnapshot ==
    [][ lastOp'.op = "revert" =>
          IF Ok(lastOp')
          THEN LET e == pipeline[lastOp'.idx + 1] IN
               /\ data' = e.data
               /\ cols' = e.cols
               /\ pipeline'[1].desc.kind = "Revert to"
               /\ pipeline'[1].data = e.data
               /\ pipeline'[1].cols = e.cols
               /\ Len(pipeline') = Min(Len(pipeline) + 1, PipelineCap)
               /\ \A i \in 1..(Len(pipeline') - 1) : pipeline'[i + 1] = pipeline[i]
          ELSE UNCHANGED <<data, cols, pipeline>> ]_vars

\* a revert to an older entry with another snapshot, on a full pipeline
C2_Witness ==
    /\ lastOp.op = "revert" /\ Ok(lastOp) /\ lastOp.idx > 0
    /\ Len(pipeline) = PipelineCap
    /\ clock > PipelineCap
    /\ pipeline[1].data # pipeline[2].data
    /\ data = pipeline[1].data

\* C3: Undo restores data and cols to what they were right before the last
\* transform (filter, script or sample) of the loaded dataset, and changes
\* nothing when there is no such transform since the load or the last Undo.
C3_UndoRestoresLastTransform ==
    [][ lastOp'.op = "undo" =>
          IF beforeLast # None
          THEN data' = beforeLast[1].data /\ cols' = beforeLast[1].cols
          ELSE data' = data /\ cols' = cols ]_vars

\* C4: an attempt at an unavailable action (a filter at Level 1, a script at
\* Level 1 or 2) makes the nudge visible, and a visible nudge stays until it is
\* dismissed or the workspace is reset.
C4_NudgeOnUnavailableAction ==
    [][ /\ (lastOp'.op = "filter" /\ level = 1) => nudge' # None
        /\ (lastOp'.op \in {"script", "runDisabled"} /\ level <= 2) => nudge' # None
        /\ (nudge # None /\ lastOp'.op \notin {"dismiss", "reset"}) => nudge' # None
      ]_vars

RecordedOps == {"load", "filter", "script", "sample", "undo", "revert"}

KindsOf(op) ==
    CASE op = "load" -> {"Load dataset", "Load sample dataset"}
      [] op = "filter" -> {"Filter"}
      [] op = "script" -> {"Script"}
      [] op = "sample" -> {"Sampled 10 rows"}
      [] op = "undo" -> {"Undo"}
      [] op = "revert" -> {"Revert to"}

\* C5: the pipeline is most recent first and bounded: a recorded step puts its
\* entry at index 0, the entries behind it are the leading entries of the
\* pipeline before the step in their order (all that fit under the cap of 100;
\* none after a load, which starts the pipeline afresh), and the pipeline never
\* holds more than 100 entries.
C5_PipelineNewestFirstBounded ==
    [][ /\ Len(pipeline') <= PipelineCap
        /\ (lastOp'.op \in RecordedOps /\ Ok(lastOp')) =>
              /\ pipeline' # <<>>
              /\ pipeline'[1].ts = clock
              /\ pipeline'[1].desc.kind \in KindsOf(lastOp'.op)
              /\ IsPrefix(Tail(pipeline'), pipeline)
              /\ Len(pipeline') = IF lastOp'.op = "load" THEN 1
                                  ELSE Min(Len(pipeline) + 1, PipelineCap)
        /\ (\A i \in 1..(Len(pipeline') - 1) : pipeline'[i].ts > pipeline'[i + 1].ts)
      ]_vars

\* a full pipeline from which the oldest entries have been dropped
C5_Witness ==
    /\ Len(pipeline) = PipelineCap
    /\ pipeline[PipelineCap].ts > 0
    /\ lastOp.op \in RecordedOps /\ Ok(lastOp)

\* C6: after a recorded step the first pipeline entry's snapshot equals the
\* current data and cols, value for value.
C6_SnapshotEqualsData ==
    (pipeline # <<>> /\ lastOp.op \in RecordedOps /\ Ok(lastOp))
        => (pipeline[1].data = data /\ pipeline[1].cols = cols)

CountEq(s) == Cardinality({i \in 1..Len(s) : s[i] = "="})

\* C7 as stated: a filter text with none of the five forms raises
\* 'Unsupported filter expression', a script without exactly one "=" raises
\* 'Script must be: newcol = expression', and data, cols and the pipeline are
\* then as before.
C7_RejectedLeavesDataset ==
    [][ /\ (/\ lastOp'.op = "filter" /\ data # None
            /\ lastOp'.in.form \in {"none", "empty"})
           => (lastOp'.res = "unsupported" /\ UNCHANGED <<data, cols, pipeline>>)
        /\ (/\ lastOp'.op = "script" /\ data # None
            /\ CountEq(lastOp'.in.text) # 1)
           => (lastOp'.res = "format" /\ UNCHANGED <<data, cols, pipeline>>)
      ]_vars

\* C7 amended: a non-empty filter text with none of the five forms ...
C7_RejectedNonEmptyLeavesDataset ==
    [][ /\ (/\ lastOp'.op = "filter" /\ data # None
            /\ lastOp'.in.form = "none")
           => (lastOp'.res = "unsupported" /\ UNCHANGED <<data, cols, pipeline>>)
        /\ (/\ lastOp'.op = "script" /\ data # None
            /\ CountEq(lastOp'.in.text) # 1)
           => (lastOp'.res = "format" /\ UNCHANGED <<data, cols, pipeline>>)
      ]_vars

\* a rejected, non-empty filter text on a loaded dataset
C7_Witness ==
    /\ lastOp.op = "filter" /\ lastOp.res = "unsupported"
    /\ lastOp.in.text # <<>>
    /\ data # None /\ Len(Rows) > 0
    /\ lastSnapshotRef # None
    /\ pipeline # <<>>

\* the predicate of a filter on a row, from what the text was written from
Satisfies(in, r) ==
    LET v == Get(r, in.col) IN
    CASE in.form = "eq" -> JsString(v) = in.val
      [] in.form = "neq" -> ~(JsString(v) = in.val)
      [] in.form = "gt" ->
            /\ ToNumber(v).k = "num" /\ StrToNumber(in.val).k = "num"
            /\ ToNumber(v).n > StrToNumber(in.val).n
      [] in.form = "lt" ->
            /\ ToNumber(v).k = "num" /\ StrToNumber(in.val).k = "num"
            /\ ToNumber(v).n < StrToNumber(in.val).n
      [] in.form = "contains" ->
            \E i \in 1..(Len(JsString(v)) + 1) :
                MatchesAt(ToLowerCase(JsString(v)), ToLowerCase(in.val), i)

\* C8: a successful filter leaves exactly the rows that satisfy the predicate
\* of the expression, in their order, and leaves cols; an empty expression
\* keeps every row.
C8_FilterSelectsRows ==
    [][ (lastOp'.op = "filter" /\ Ok(lastOp')) =>
          LET in == lastOp'.in
              Test(r) == Satisfies(in, r)
          IN  /\ cols' = cols
              /\ in.form \in FilterForms \cup {"empty"}
              /\ in.form \in FilterForms => data' = Some(SelectSeq(data[1], Test))
              /\ in.form = "empty" => data' = data ]_vars

\* a 'contains' filter that kept some rows and removed others
C8_Witness ==
    /\ lastOp.op = "filter" /\ Ok(lastOp)
    /\ lastOp.in.form = "contains"
    /\ Len(Rows) > 0
    /\ Len(Rows) < Len(beforeLast[1].data[1])

NoDuplicates(s) == \A i, j \in 1..Len(s) : s[i] = s[j] => i = j

\* C9: a successful script 't = e' keeps the number and order of the rows and
\* every field other than t, gives every row the field t (null where the
\* evaluation fails: an unknown name, a member of null or of a missing field),
\* and appends t to cols unless it is a column already.
C9_ScriptAddsColumn ==
    [][ (lastOp'.op = "script" /\ Ok(lastOp')) =>
          LET t == lastOp'.in.col
              e == lastOp'.in.val
              old == data[1]
              new == data'[1]
          IN  /\ Len(new) = Len(old)
              /\ \A i \in 1..Len(old) :
                    /\ DOMAIN new[i] = DOMAIN old[i] \cup {t}
                    /\ \A f \in DOMAIN old[i] \ {t} : new[i][f] = old[i][f]
                    /\ e = Expr_zz => new[i][t] = JsNull
                    /\ (e = Expr_nx /\ Get(old[i], ColN).k \in {"null", "undef"})
                          => new[i][t] = JsNull
              /\ cols' = IF \E i \in 1..Len(cols[1]) : cols[1][i] = t
                         THEN cols
                         ELSE Some(Append(cols[1], t))
              /\ NoDuplicates(cols'[1]) ]_vars

\* a script whose evaluation failed for one row and not for another
C9_Witness ==
    /\ lastOp.op = "script" /\ Ok(lastOp)
    /\ lastOp.in.col = ColT
    /\ cols # None /\ cols[1][Len(cols[1])] = ColT
    /\ \E i \in 1..Len(Rows) : Rows[i][ColT] = JsNull
    /\ \E i \in 1..Len(Rows) : Rows[i][ColT].k = "undef"

\* The rewriting C10 describes, in one pass over the expression: at each
\* position, a whole-word occurrence of a column name (the longest one)
\* becomes its lookup, a whole-word occurrence of a function name becomes its
\* Math counterpart, and any other character is copied.  colsFirst says which
\* wins when a name is both.
FuncAt(s, i) == {k \in 1..Len(SAFE_FUNCS) : WordMatchAt(s, SAFE_FUNCS[k].fn, i)}

ColsAt(s, cs, i) == {k \in 1..Len(cs) : cs[k] # <<>> /\ WordMatchAt(s, cs[k], i)}

RECURSIVE Rewritten(_, _, _, _)
Rewritten(s, cs, i, colsFirst) ==
    IF i > Len(s) THEN <<>>
    ELSE LET fs == FuncAt(s, i)
             ks == ColsAt(s, cs, i)
             k == CHOOSE m \in ks : \A o \in ks : Len(cs[o]) <= Len(cs[m])
             f == CHOOSE m \in fs : TRUE
         IN  IF ks # {} /\ (colsFirst \/ fs = {})
             THEN colIdentifier(cs[k]) \o Rewritten(s, cs, i + Len(cs[k]), colsFirst)
             ELSE IF fs # {}
             THEN SAFE_FUNCS[f].js \o Rewritten(s, cs, i + Len(SAFE_FUNCS[f].fn), colsFirst)
             ELSE <<s[i]>> \o Rewritten(s, cs, i + 1, colsFirst)

\* C10: buildExpression turns every whole-word column name into one lookup
\* and every whole-word function name into its Math counterpart, and leaves
\* the rest of the text, for every list of column names.
C10_BuildExpressionRewrites ==
    built.out # None =>
        \/ built.out[1] = Rewritten(built.expr, built.cols, 1, TRUE)
        \/ built.out[1] = Rewritten(built.expr, built.cols, 1, FALSE)

\* the datasets the page can load, each with the label of its load step
Loadable ==
    {[data |-> ds.data, cols |-> ds.cols, label |-> "Load dataset"] : ds \in Uploads}
        \cup {[data |-> sampleData, cols |-> sampleCols, label |-> "Load sample dataset"]}

\* C11: whatever the state before, after a load (CSV upload or sample) the
\* current data and cols are the loaded ones, the X and Y selections are
\* unset, and the pipeline holds exactly one entry, the load step, whose
\* snapshot equals the loaded data and cols.
C11_LoadStartsFreshProvenance ==
    [][ (lastOp'.op = "load" /\ clock' # clock) =>
          \E ds \in Loadable :
              /\ data' = Some(ds.data)
              /\ cols' = Some(ds.cols)
              /\ x' = None
              /\ y' = None
              /\ Len(pipeline') = 1
              /\ pipeline'[1].desc = Desc(ds.label, <<>>)
              /\ pipeline'[1].data = Some(ds.data)
              /\ pipeline'[1].cols = Some(ds.cols)
      ]_vars

\* a load over an earlier dataset that had been transformed: the pipeline is
\* back to the load entry alone while the snapshot kept for Undo is still there
C11_Witness ==
    /\ lastOp.op = "load"
    /\ clock > 2
    /\ lastSnapshotRef # None
    /\ Len(pipeline) = 1
    /\ pipeline[1].data = data
    /\ x = None /\ y = None

====
